---------------------------- MODULE Spec2Model ----------------------------
(***************************************************************************)
(* A model of the BLE monitoring probe: the collector (collector.py: the   *)
(* capture sessions, their start barrier, the shared output sink and the   *)
(* marker resync scan), the detection engine (detector.py) and the two     *)
(* anomaly models (models/simple_statistics.py, models/sliding_window.py). *)
(*                                                                         *)
(* The module holds several specifications over one set of variables; a    *)
(* specification leaves the variables of the other parts at their idle     *)
(* values:                                                                  *)
(*   SpecCollector / FairCollector   the capture sessions and main thread  *)
(*   SpecResync                      the marker resync scan, byte by byte  *)
(*   SpecModel                       one anomaly model fed with timestamps *)
(*   SpecDetector                    the detection engine over a capture   *)
(***************************************************************************)
EXTENDS Integers, Sequences, FiniteSets, TLC

VARIABLES
    \* ---- collector.py ----
    mode,        \* "timing" | "advertising" | "raw": _target_fn, chosen from the arguments
    mainPc,      \* position of the main thread in the start-up code (lines 390-402)
    started,     \* number of threads the main thread has started so far
    pc,          \* pc[s]: position of capture session s in its target function
    condLock,    \* holder of start_cond's lock: 0 free, a session, or Main
    waiters,     \* sessions blocked inside start_cond.wait()
    writeLock,   \* holder of write_lock: 0 free, or a session
    writing,     \* writing[s]: session s is inside a print / writerow / out.write call
    scanDepth,   \* scanDepth[s]: marker bytes matched so far by s's resync scan
    sunk,        \* sunk[s]: number of records session s has put into the output sink
    start_time,  \* start_time[s]: the local start_time of session s (0 until assigned)
    channel,     \* channel[s]: the local channel of session s (0 until assigned)
    rec,         \* rec[s]: the record session s has built and is about to write (<<>>: none)
    \* ---- the resync scan of collector.py taken alone ----
    rsRead,      \* the bytes the scan has consumed from the link since it began
    rsDepth,     \* marker bytes matched so far (4: the scan has left its loop)
    \* ---- the devices observed (by one model or by the detection engine) ----
    period,      \* the advertising interval of the devices
    odd,         \* how many records so far were not one period after the one before
    \* ---- one anomaly model taken alone (models/*.py) ----
    model,       \* the model object's fields
    fed,         \* what the Timestamp fields passed to processAdv so far parsed to, in order
    outs,        \* the outcome of each of these calls
    prev,        \* the model's fields before the last call
    \* ---- detector.py ----
    detectorID,  \* the -d argument: "simple_statistics" | "sliding_window"
    format,      \* how the capture file writes its Timestamp column: "int" | "iso"
    engine,      \* "running" | "finished" (end of the capture) | "aborted" (uncaught exception)
    models,      \* the dict models: address -> model object, for the addresses seen
    processed,   \* number of capture rows read so far
    modelLog,    \* modelLogFile: [len: rows written, last: the last row]
    alertLog,    \* alertLog: [len: rows written, last: the last row]
    errorLog,    \* the "Error occurred while processing" lines printed: [len, last]
    recOf,       \* recOf[a]: the Timestamp fields of the rows of address a read so far
    outOf,       \* outOf[a]: the outcome of processAdv on the last row of address a
    lastRow      \* the address and Timestamp field of the last row read

collectorVars == <<mode, mainPc, started, pc, condLock, waiters, writeLock,
                   writing, scanDepth, sunk, start_time, channel, rec>>

resyncVars == <<rsRead, rsDepth>>

deviceVars == <<period, odd>>

modelVars == <<model, fed, outs, prev>>

detectorVars == <<detectorID, format, engine, models, processed, modelLog, alertLog,
                  errorLog, recOf, outOf, lastRow>>

vars == <<collectorVars, resyncVars, deviceVars, modelVars, detectorVars>>

-----------------------------------------------------------------------------
(* Bounds *)

\* Number of enabled device sections in the configuration (one thread each).
NumSessions == 2
\* Cap on the per-session count of records put into the sink.
MaxSunk == 2
\* Number of bytes the link delivers to one resync scan.
MaxScan == 6
\* Number of processAdv calls made on one model.
MaxCalls == 13
\* Number of these calls whose record is not one period after the one before.
MaxOdd == 2
\* Number of rows in a capture file read by the detection engine.
MaxRecords == 13
\* Number of these rows that are not one period after the last row of their address.
MaxOddRecords == 1

Sessions == 1..NumSessions
Main == NumSessions + 1

Modes == {"timing", "advertising", "raw"}

\* The 4-byte frame markers (lines 141, 157-160 and 251, 270-273).
AdvMarker == <<"A", "d", "v", ":">>
BleMarker == <<"B", "L", "E", ":">>

Marker(m) == IF m = "raw" THEN BleMarker ELSE AdvMarker

\* The bytes the link may deliver to a scan for marker mk: the marker's own
\* bytes and one byte that is none of them.
Alphabet(mk) == {mk[i] : i \in 1..4} \cup {"X"}

-----------------------------------------------------------------------------
(* The resync scan, lines 156-161 and 269-274:                             *)
(*     while True:                                                         *)
(*         if conn.read(1) == b'A':                                        *)
(*             if conn.read(1) == b'd':                                    *)
(*                 if conn.read(1) == b'v':                                *)
(*                     if conn.read(1) == b':':                            *)
(*                         break                                           *)
(* depth is the number of nested ifs already passed; the byte read at      *)
(* depth d is compared with marker byte d+1 only, and a mismatch falls     *)
(* back to the top of the loop with that byte consumed.                    *)
ScanNext(mk, depth, b) == IF b = mk[depth + 1] THEN depth + 1 ELSE 0

-----------------------------------------------------------------------------
(* What a session reads from its link and the records it builds from it.   *)

\* Values start_time can be given: collector clock minus device clock, in
\* microseconds (lines 95, 125, 227).
Offsets == {1000, 2000}

\* Channel numbers a "Locked to channel:" line can carry (lines 127, 229).
Channels == {37}

\* Device-relative timestamps a frame (or a "Timestamp:" line) can carry.
DeviceTimes == {10, 20}

\* datetime.fromtimestamp(us / 1000000): the local date and time, kept as the
\* microseconds it was made from.
FromTimestamp(us) == [type |-> "datetime", us |-> us]

\* datetime.isoformat(): the text <date>T<time>.
IsoFormat(d) == [type |-> "str", sep |-> "T", us |-> d.us]

\* str(datetime): the text <date> <time>, with a space for the 'T'.
DatetimeStr(d) == [type |-> "str", sep |-> " ", us |-> d.us]

\* What csv.DictWriter.writerow writes for a cell: a str as it is, any other
\* value through str().
CsvCell(v) == IF v.type = "str" THEN v ELSE DatetimeStr(v)

\* The row written by lines 142-148: get_advertising_info_from_serial, then
\* Timestamp = datetime.fromtimestamp((start_time + Timestamp) / 1000000).isoformat()
AdvMatchedRow(f, st) == [Timestamp |-> CsvCell(IsoFormat(FromTimestamp(st + f)))]

\* The row written by lines 163-169: the same without .isoformat()
AdvResyncRow(f, st) == [Timestamp |-> CsvCell(FromTimestamp(st + f))]

\* The packet written by lines 252-260 and by lines 276-284:
\* packet.time = (start_time + packet.time) / 1000000, report.rssi = channel
RawPacket(f, st, ch) == [time |-> st + f, rssi |-> ch]

\* The row written by lines 79-90: Device Timing and
\* Device Timestamp = start_time + device_time
TimingRow(t, st) == [DeviceTiming |-> t, DeviceTimestamp |-> st + t]

\* A record built on one of the two paths of the capture loop from the
\* frame (or line) with device time f.
Built(path, f, row) == [path |-> path, frame |-> f, row |-> row]

-----------------------------------------------------------------------------
(* Output sink sites of a session: every print / writerow / out.write call *)
(* of the target functions.  locked: the call sits inside                  *)
(* "with write_lock:"; kind: what is written; next: where the session goes *)
(* after the call.                                                         *)
SinkSite(p, m) ==
    CASE p = "esp_err"   -> [locked |-> TRUE,  kind |-> "error",  next |-> IF m = "timing" THEN "t_started" ELSE IF m = "raw" THEN "r_init" ELSE "a_init"]
      [] p = "t_started" -> [locked |-> TRUE,  kind |-> "status", next |-> "t_readline"]
      [] p = "t_row"     -> [locked |-> TRUE,  kind |-> "record", next |-> "t_readline"]
      [] p = "t_msg"     -> [locked |-> TRUE,  kind |-> "status", next |-> "t_readline"]
      [] p = "t_other"   -> [locked |-> TRUE,  kind |-> "status", next |-> "t_readline"]
      [] p = "t_valerr"  -> [locked |-> TRUE,  kind |-> "error",  next |-> "t_readline"]
      [] p = "t_oserr"   -> [locked |-> TRUE,  kind |-> "error",  next |-> "done"]
      [] p = "a_started" -> [locked |-> TRUE,  kind |-> "status", next |-> "a_marker"]
      [] p = "a_row"     -> [locked |-> TRUE,  kind |-> "record", next |-> "a_marker"]
      [] p = "a_valerr"  -> [locked |-> TRUE,  kind |-> "error",  next |-> "a_scan"]
      [] p = "a_rrow"    -> [locked |-> TRUE,  kind |-> "record", next |-> "a_marker"]
      [] p = "a_oserr"   -> [locked |-> TRUE,  kind |-> "error",  next |-> "done"]
      [] p = "r_started" -> [locked |-> TRUE,  kind |-> "status", next |-> "r_marker"]
      [] p = "r_write"   -> [locked |-> FALSE, kind |-> "record", next |-> "r_marker"]
      [] p = "r_err"     -> [locked |-> TRUE,  kind |-> "error",  next |-> "r_scan"]
      [] p = "r_rwrite"  -> [locked |-> FALSE, kind |-> "record", next |-> "r_marker"]

SinkSites == {"esp_err", "t_started", "t_row", "t_msg", "t_other", "t_valerr",
              "t_oserr", "a_started", "a_row", "a_valerr", "a_rrow", "a_oserr",
              "r_started", "r_write", "r_err", "r_rwrite"}

\* Where a session goes when esp_init returns (lines 58-60, 117-119, 219-221).
AfterEspInit(m) ==
    IF m = "timing" THEN "t_started" ELSE IF m = "raw" THEN "r_init" ELSE "a_init"

-----------------------------------------------------------------------------
(* Initial state of the collector: the threads are created (lines 369-388) *)
(* and none is started.                                                    *)
CollectorInit ==
    /\ mode \in Modes
    /\ mainPc = "start"
    /\ started = 0
    /\ pc = [s \in Sessions |-> "unstarted"]
    /\ condLock = 0
    /\ waiters = {}
    /\ writeLock = 0
    /\ writing = [s \in Sessions |-> FALSE]
    /\ scanDepth = [s \in Sessions |-> 0]
    /\ sunk = [s \in Sessions |-> 0]
    /\ start_time = [s \in Sessions |-> 0]
    /\ channel = [s \in Sessions |-> 0]
    /\ rec = [s \in Sessions |-> <<>>]

ResyncIdle ==
    /\ rsRead = <<>>
    /\ rsDepth = 0

DevicesIdle ==
    /\ period = 0
    /\ odd = 0

ModelIdle ==
    /\ model = <<>>
    /\ fed = <<>>
    /\ outs = <<>>
    /\ prev = <<>>

DetectorIdle ==
    /\ detectorID = "simple_statistics"
    /\ format = "int"
    /\ engine = "finished"
    /\ models = <<>>
    /\ processed = 0
    /\ modelLog = [len |-> 0, last |-> <<>>]
    /\ alertLog = [len |-> 0, last |-> <<>>]
    /\ errorLog = [len |-> 0, last |-> <<>>]
    /\ recOf = <<>>
    /\ outOf = <<>>
    /\ lastRow = <<>>

\* The collector before it is run (the other parts do not use it).
CollectorIdle ==
    /\ mode = "advertising"
    /\ mainPc = "start"
    /\ started = 0
    /\ pc = [s \in Sessions |-> "unstarted"]
    /\ condLock = 0
    /\ waiters = {}
    /\ writeLock = 0
    /\ writing = [s \in Sessions |-> FALSE]
    /\ scanDepth = [s \in Sessions |-> 0]
    /\ sunk = [s \in Sessions |-> 0]
    /\ start_time = [s \in Sessions |-> 0]
    /\ channel = [s \in Sessions |-> 0]
    /\ rec = [s \in Sessions |-> <<>>]

-----------------------------------------------------------------------------
(* The main thread, lines 390-402 *)

\* for thread in threads: thread.start()
MainStartThread ==
    /\ mainPc = "start"
    /\ started < NumSessions
    /\ started' = started + 1
    /\ pc' = [pc EXCEPT ![started + 1] = "cond_enter"]
    /\ UNCHANGED <<mode, mainPc, condLock, waiters, writeLock, writing, scanDepth, sunk>>
    /\ UNCHANGED <<resyncVars, deviceVars, modelVars, detectorVars>>
    /\ UNCHANGED <<start_time, channel, rec>>

\* with start_cond:   (the loop over the threads is finished)
MainCondEnter ==
    /\ mainPc = "start"
    /\ started = NumSessions
    /\ condLock = 0
    /\ condLock' = Main
    /\ mainPc' = "notify"
    /\ UNCHANGED <<mode, started, pc, waiters, writeLock, writing, scanDepth, sunk>>
    /\ UNCHANGED <<resyncVars, deviceVars, modelVars, detectorVars>>
    /\ UNCHANGED <<start_time, channel, rec>>

\* start_cond.notify_all(): wakes the sessions that are in wait() now
MainNotifyAll ==
    /\ mainPc = "notify"
    /\ pc' = [s \in Sessions |-> IF s \in waiters THEN "woken" ELSE pc[s]]
    /\ waiters' = {}
    /\ mainPc' = "cond_exit"
    /\ UNCHANGED <<mode, started, condLock, writeLock, writing, scanDepth, sunk>>
    /\ UNCHANGED <<resyncVars, deviceVars, modelVars, detectorVars>>
    /\ UNCHANGED <<start_time, channel, rec>>

\* leaving the with block releases the condition's lock; main goes on to join
MainCondExit ==
    /\ mainPc = "cond_exit"
    /\ condLock' = 0
    /\ mainPc' = "join"
    /\ UNCHANGED <<mode, started, pc, waiters, writeLock, writing, scanDepth, sunk>>
    /\ UNCHANGED <<resyncVars, deviceVars, modelVars, detectorVars>>
    /\ UNCHANGED <<start_time, channel, rec>>

-----------------------------------------------------------------------------
(* A capture session: the start barrier, lines 55-56, 114-115, 216-217 *)

\* with start_cond:
CondEnter(s) ==
    /\ pc[s] = "cond_enter"
    /\ condLock = 0
    /\ condLock' = s
    /\ pc' = [pc EXCEPT ![s] = "cond_wait"]
    /\ UNCHANGED <<mode, mainPc, started, waiters, writeLock, writing, scanDepth, sunk>>
    /\ UNCHANGED <<resyncVars, deviceVars, modelVars, detectorVars>>
    /\ UNCHANGED <<start_time, channel, rec>>

\* start_cond.wait(): registers as a waiter, releases the lock and blocks
CondWait(s) ==
    /\ pc[s] = "cond_wait"
    /\ waiters' = waiters \cup {s}
    /\ condLock' = 0
    /\ pc' = [pc EXCEPT ![s] = "waiting"]
    /\ UNCHANGED <<mode, mainPc, started, writeLock, writing, scanDepth, sunk>>
    /\ UNCHANGED <<resyncVars, deviceVars, modelVars, detectorVars>>
    /\ UNCHANGED <<start_time, channel, rec>>

\* wait() returns once notified and the lock is taken again
CondWake(s) ==
    /\ pc[s] = "woken"
    /\ condLock = 0
    /\ condLock' = s
    /\ pc' = [pc EXCEPT ![s] = "cond_exit"]
    /\ UNCHANGED <<mode, mainPc, started, waiters, writeLock, writing, scanDepth, sunk>>
    /\ UNCHANGED <<resyncVars, deviceVars, modelVars, detectorVars>>
    /\ UNCHANGED <<start_time, channel, rec>>

\* leaving the with block; esp_init(conn) toggles DTR and drops the input buffer
CondExit(s) ==
    /\ pc[s] = "cond_exit"
    /\ condLock' = 0
    /\ pc' = [pc EXCEPT ![s] = "esp_readline"]
    /\ UNCHANGED <<mode, mainPc, started, waiters, writeLock, writing, scanDepth, sunk>>
    /\ UNCHANGED <<resyncVars, deviceVars, modelVars, detectorVars>>
    /\ UNCHANGED <<start_time, channel, rec>>

-----------------------------------------------------------------------------
(* esp_init, lines 26-45 *)

\* message = conn.readline() in the loop of lines 39-42; OSError is caught at
\* line 43, and esp_init then returns to its caller like after "entry".
EspReadline(s) ==
    /\ pc[s] = "esp_readline"
    /\ \E r \in {"entry", "other", "OSError"} :
          pc' = [pc EXCEPT ![s] = CASE r = "entry"   -> AfterEspInit(mode)
                                    [] r = "other"   -> "esp_readline"
                                    [] r = "OSError" -> "esp_err"]
    /\ UNCHANGED <<mode, mainPc, started, condLock, waiters, writeLock, writing, scanDepth, sunk>>
    /\ UNCHANGED <<resyncVars, deviceVars, modelVars, detectorVars>>
    /\ UNCHANGED <<start_time, channel, rec>>

-----------------------------------------------------------------------------
(* The output sink *)

\* Entering a print / writerow / out.write call: under "with write_lock:" the
\* lock is acquired first (blocking while another session holds it).
SinkEnter(s) ==
    /\ pc[s] \in SinkSites
    /\ ~writing[s]
    /\ IF SinkSite(pc[s], mode).locked
         THEN /\ writeLock = 0
              /\ writeLock' = s
         ELSE UNCHANGED writeLock
    /\ writing' = [writing EXCEPT ![s] = TRUE]
    /\ UNCHANGED <<mode, mainPc, started, pc, condLock, waiters, scanDepth, sunk>>
    /\ UNCHANGED <<resyncVars, deviceVars, modelVars, detectorVars>>
    /\ UNCHANGED <<start_time, channel, rec>>

\* The call returns; the with block, if any, releases the lock.
SinkExit(s) ==
    /\ pc[s] \in SinkSites
    /\ writing[s]
    /\ writeLock' = IF SinkSite(pc[s], mode).locked THEN 0 ELSE writeLock
    /\ writing' = [writing EXCEPT ![s] = FALSE]
    /\ sunk' = [sunk EXCEPT ![s] = IF SinkSite(pc[s], mode).kind = "record" /\ @ < MaxSunk
                                     THEN @ + 1 ELSE @]
    /\ pc' = [pc EXCEPT ![s] = SinkSite(pc[s], mode).next]
    /\ rec' = [rec EXCEPT ![s] = <<>>]
    /\ UNCHANGED <<mode, mainPc, started, condLock, waiters, scanDepth, start_time, channel>>
    /\ UNCHANGED <<resyncVars, deviceVars, modelVars, detectorVars>>

-----------------------------------------------------------------------------
(* log_timing_info, lines 63-106 *)

\* message_raw = conn.readline() and the dispatch on the line's prefix
TimingReadline(s) ==
    /\ pc[s] = "t_readline"
    /\ \/ \E t \in DeviceTimes :
            /\ pc' = [pc EXCEPT ![s] = "t_row"]
            /\ rec' = [rec EXCEPT ![s] = Built("matched", t, TimingRow(t, start_time[s]))]
            /\ UNCHANGED start_time
       \/ \E o \in Offsets :
            /\ pc' = [pc EXCEPT ![s] = "t_msg"]
            /\ start_time' = [start_time EXCEPT ![s] = o]
            /\ UNCHANGED rec
       \/ \E r \in {"other", "ValueError", "OSError"} :
            /\ pc' = [pc EXCEPT ![s] = CASE r = "other"      -> "t_other"
                                        [] r = "ValueError" -> "t_valerr"
                                        [] r = "OSError"    -> "t_oserr"]
            /\ UNCHANGED <<start_time, rec>>
    /\ UNCHANGED <<mode, mainPc, started, condLock, waiters, writeLock, writing, scanDepth, sunk,
                   channel>>
    /\ UNCHANGED <<resyncVars, deviceVars, modelVars, detectorVars>>

-----------------------------------------------------------------------------
(* log_advertising_info, lines 119-172, and log_raw_packets, lines 221-284 *)

\* Initialisation phase, lines 120-128 and 222-230: readline until
\* "Locked to channel:".  The loop is outside every try block: an OSError of
\* the link, or a ValueError of int(), ends the thread with the exception.
CaptureInitReadline(s) ==
    /\ pc[s] \in {"a_init", "r_init"}
    /\ \/ \E o \in Offsets :
            /\ start_time' = [start_time EXCEPT ![s] = o]
            /\ UNCHANGED <<pc, channel>>
       \/ \E c \in Channels :
            /\ channel' = [channel EXCEPT ![s] = c]
            /\ pc' = [pc EXCEPT ![s] = IF pc[s] = "a_init" THEN "a_started" ELSE "r_waitscan"]
            /\ UNCHANGED start_time
       \/ \E r \in {"other", "ValueError", "OSError"} :
            /\ pc' = [pc EXCEPT ![s] = CASE r = "other"      -> pc[s]
                                        [] r = "ValueError" -> "crashed"
                                        [] r = "OSError"    -> "io_crashed"]
            /\ UNCHANGED <<start_time, channel>>
    /\ UNCHANGED <<mode, mainPc, started, condLock, waiters, writeLock, writing, scanDepth, sunk,
                   rec>>
    /\ UNCHANGED <<resyncVars, deviceVars, modelVars, detectorVars>>

\* Raw mode, lines 233-238 of the wait for scan start: conn.read(4); on the
\* marker the 8-byte timestamp, the 2-byte length and the payload are read
\* into data.  Any other four bytes are passed over.  No handler catches the
\* OSError of a read.
RawWaitScanStart(s) ==
    /\ pc[s] = "r_waitscan"
    /\ \E r \in {"frame", "noMarker", "OSError"} :
          pc' = [pc EXCEPT ![s] = CASE r = "frame"   -> "r_waitframe"
                                    [] r = "OSError" -> "io_crashed"
                                    [] OTHER         -> "r_waitscan"]
    /\ UNCHANGED <<mode, mainPc, started, condLock, waiters, writeLock, writing, scanDepth, sunk>>
    /\ UNCHANGED <<resyncVars, deviceVars, modelVars, detectorVars>>
    /\ UNCHANGED <<start_time, channel, rec>>

\* Raw mode, lines 239-240: the frame just read ends the wait when its
\* payload is the LE Set Scan Enable Complete event; otherwise the loop reads
\* on.  Either way the frame in data is discarded.
RawWaitFrame(s) ==
    /\ pc[s] = "r_waitframe"
    /\ \E isScanEnableComplete \in BOOLEAN :
          pc' = [pc EXCEPT ![s] = IF isScanEnableComplete THEN "r_started" ELSE "r_waitscan"]
    /\ UNCHANGED <<mode, mainPc, started, condLock, waiters, writeLock, writing, scanDepth, sunk>>
    /\ UNCHANGED <<resyncVars, deviceVars, modelVars, detectorVars>>
    /\ UNCHANGED <<start_time, channel, rec>>

\* Advertising mode, lines 140-150: msg_start = conn.read(4); on the marker
\* the frame body is read and decoded, otherwise ValueError is raised.  The
\* OSError of any read is caught at line 170.
AdvReadMarker(s) ==
    /\ pc[s] = "a_marker"
    /\ \/ \E f \in DeviceTimes :
            /\ pc' = [pc EXCEPT ![s] = "a_row"]
            /\ rec' = [rec EXCEPT ![s] = Built("matched", f, AdvMatchedRow(f, start_time[s]))]
       \/ \E r \in {"mismatch", "OSError"} :
            /\ pc' = [pc EXCEPT ![s] = IF r = "mismatch" THEN "a_valerr" ELSE "a_oserr"]
            /\ UNCHANGED rec
    /\ UNCHANGED <<mode, mainPc, started, condLock, waiters, writeLock, writing, scanDepth, sunk,
                   start_time, channel>>
    /\ UNCHANGED <<resyncVars, deviceVars, modelVars, detectorVars>>

\* Raw mode, lines 250-267: no try block surrounds the capture loop.
RawReadMarker(s) ==
    /\ pc[s] = "r_marker"
    /\ \/ \E f \in DeviceTimes :
            /\ pc' = [pc EXCEPT ![s] = "r_write"]
            /\ rec' = [rec EXCEPT ![s] = Built("matched", f, RawPacket(f, start_time[s], channel[s]))]
       \/ \E r \in {"mismatch", "OSError"} :
            /\ pc' = [pc EXCEPT ![s] = IF r = "mismatch" THEN "r_err" ELSE "io_crashed"]
            /\ UNCHANGED rec
    /\ UNCHANGED <<mode, mainPc, started, condLock, waiters, writeLock, writing, scanDepth, sunk,
                   start_time, channel>>
    /\ UNCHANGED <<resyncVars, deviceVars, modelVars, detectorVars>>

\* One conn.read(1) of the resync scan, lines 156-161 and 269-274; after the
\* last marker byte the frame body is read (lines 163-167, 276-283).
ScanRead(s) ==
    /\ pc[s] \in {"a_scan", "r_scan"}
    /\ \/ \E b \in Alphabet(Marker(mode)) :
            LET d == ScanNext(Marker(mode), scanDepth[s], b) IN
            IF d = 4
              THEN /\ scanDepth' = [scanDepth EXCEPT ![s] = 0]
                   /\ pc' = [pc EXCEPT ![s] = IF pc[s] = "a_scan" THEN "a_rrow" ELSE "r_rwrite"]
                   /\ \E f \in DeviceTimes :
                        rec' = [rec EXCEPT ![s] =
                                  Built("resync", f,
                                        IF pc[s] = "a_scan"
                                          THEN AdvResyncRow(f, start_time[s])
                                          ELSE RawPacket(f, start_time[s], channel[s]))]
              ELSE /\ scanDepth' = [scanDepth EXCEPT ![s] = d]
                   /\ UNCHANGED <<pc, rec>>
       \/ /\ scanDepth' = [scanDepth EXCEPT ![s] = 0]
          /\ pc' = [pc EXCEPT ![s] = IF pc[s] = "a_scan" THEN "a_oserr" ELSE "io_crashed"]
          /\ UNCHANGED rec
    /\ UNCHANGED <<mode, mainPc, started, condLock, waiters, writeLock, writing, sunk,
                   start_time, channel>>
    /\ UNCHANGED <<resyncVars, deviceVars, modelVars, detectorVars>>

-----------------------------------------------------------------------------
SessionAction(s) ==
    \/ CondEnter(s) \/ CondWait(s) \/ CondWake(s) \/ CondExit(s)
    \/ EspReadline(s)
    \/ SinkEnter(s) \/ SinkExit(s)
    \/ TimingReadline(s)
    \/ CaptureInitReadline(s) \/ RawWaitScanStart(s) \/ RawWaitFrame(s)
    \/ AdvReadMarker(s) \/ RawReadMarker(s) \/ ScanRead(s)

MainAction == MainStartThread \/ MainCondEnter \/ MainNotifyAll \/ MainCondExit

NextCollector == MainAction \/ \E s \in Sessions : SessionAction(s)

InitCollector == CollectorInit /\ ResyncIdle /\ DevicesIdle /\ ModelIdle /\ DetectorIdle

SpecCollector == InitCollector /\ [][NextCollector]_vars

\* Python threads are scheduled by the operating system: a thread that can
\* take a step eventually takes one.
FairCollector ==
    /\ SpecCollector
    /\ WF_vars(MainAction)
    /\ \A s \in Sessions : WF_vars(SessionAction(s))

-----------------------------------------------------------------------------
(* The resync scan taken alone: one session of a capture mode that has hit *)
(* a framing error scans the bytes the link delivers, whatever they are.   *)

ResyncInit ==
    /\ DevicesIdle
    /\ ModelIdle
    /\ DetectorIdle
    /\ mode \in {"advertising", "raw"}
    /\ mainPc = "join"
    /\ started = NumSessions
    /\ pc = [s \in Sessions |-> IF s = 1 THEN (IF mode = "raw" THEN "r_scan" ELSE "a_scan")
                                          ELSE (IF mode = "raw" THEN "crashed" ELSE "done")]
    /\ condLock = 0
    /\ waiters = {}
    /\ writeLock = 0
    /\ writing = [s \in Sessions |-> FALSE]
    /\ scanDepth = [s \in Sessions |-> 0]
    /\ sunk = [s \in Sessions |-> 0]
    /\ start_time = [s \in Sessions |-> 0]
    /\ channel = [s \in Sessions |-> 0]
    /\ rec = [s \in Sessions |-> <<>>]
    /\ rsRead = <<>>
    /\ rsDepth = 0

\* One conn.read(1) of lines 157-160 / 270-273 and the comparison made on it.
RsScanRead ==
    /\ rsDepth < 4
    /\ Len(rsRead) < MaxScan
    /\ \E b \in Alphabet(Marker(mode)) :
          /\ rsRead' = Append(rsRead, b)
          /\ rsDepth' = ScanNext(Marker(mode), rsDepth, b)
    /\ UNCHANGED <<collectorVars, deviceVars, modelVars, detectorVars>>

NextResync == RsScanRead

SpecResync == ResyncInit /\ [][NextResync]_vars

-----------------------------------------------------------------------------
(* Arithmetic of the anomaly models.  silenceMidpoint and currThreshold    *)
(* become Python floats through "/ 2"; every value they take is a dyadic   *)
(* rational n / 2^e, which a float holds exactly at the magnitudes used    *)
(* here.  A dyadic is kept normal: e = 0 or n odd.                         *)

RECURSIVE DyNorm(_)
DyNorm(q) == IF q.e > 0 /\ q.n % 2 = 0
               THEN DyNorm([n |-> q.n \div 2, e |-> q.e - 1])
               ELSE q

Dy(i) == [n |-> i, e |-> 0]

AbsInt(i) == IF i < 0 THEN -i ELSE i

\* (q + g) / 2
DyHalfSum(q, g) == DyNorm([n |-> q.n + g * 2^(q.e), e |-> q.e + 1])

\* abs(q - g)
DyAbsDiff(q, g) == DyNorm([n |-> AbsInt(q.n - g * 2^(q.e)), e |-> q.e])

\* a > b, both brought to the larger of the two exponents
DyGreater(a, b) ==
    LET k == IF a.e > b.e THEN a.e ELSE b.e
    IN  a.n * 2^(k - a.e) > b.n * 2^(k - b.e)

\* 2 * q
DyTwice(q) == DyNorm([n |-> 2 * q.n, e |-> q.e])

RECURSIVE SumSeq(_)
SumSeq(w) == IF w = <<>> THEN 0 ELSE Head(w) + SumSeq(Tail(w))

RECURSIVE SumSquares(_)
SumSquares(w) == IF w = <<>> THEN 0 ELSE Head(w) * Head(w) + SumSquares(Tail(w))

\* statistics.median of a window of odd length: the middle element in sorted order.
Median(w) ==
    CHOOSE x \in {w[i] : i \in 1..Len(w)} :
        /\ 2 * Cardinality({i \in 1..Len(w) : w[i] < x}) < Len(w)
        /\ 2 * Cardinality({i \in 1..Len(w) : w[i] <= x}) > Len(w)

-----------------------------------------------------------------------------
(* The Timestamp field of a record and its conversion, lines 18-23 of      *)
(* simple_statistics.py and 25-30 of sliding_window.py:                    *)
(*     try: timestamp = int(timestamp)                                     *)
(*     except ValueError:                                                  *)
(*         time = timestamp.split('T')[1]                                  *)
(*         hours, minutes, sec = time.split(':')                           *)
(*         timestamp = int(float(sec) * 1000) + int(minutes) * 60000       *)
(*                     + int(hours) * 3600000                              *)
(* A field is an integer (or its decimal text), an ISO-like text           *)
(* <date>T<h>:<m>:<sec> with the seconds given here in milliseconds (a     *)
(* multiple of 125, for which float(sec) * 1000 is exact), a text without  *)
(* 'T' (split('T')[1] raises IndexError) or a text whose part after 'T'    *)
(* is not h:m:s (the unpacking raises ValueError).                         *)

IntField(v) == [kind |-> "int", h |-> 0, m |-> 0, ms |-> v]

IsoField(v) == [kind |-> "iso", h |-> v \div 3600000, m |-> (v % 3600000) \div 60000,
                ms |-> v % 60000]

NoTField == [kind |-> "noT", h |-> 0, m |-> 0, ms |-> 0]

BadTimeField == [kind |-> "badTime", h |-> 0, m |-> 0, ms |-> 0]

\* A value an ISO-like text can carry exactly: a time of day in steps of 125 ms.
IsoAble(v) == v >= 0 /\ v < 86400000 /\ v % 125 = 0

ParseTimestamp(f) ==
    CASE f.kind = "int"     -> [exc |-> "none", val |-> f.ms]
      [] f.kind = "iso"     -> [exc |-> "none", val |-> f.ms + f.m * 60000 + f.h * 3600000]
      [] f.kind = "noT"     -> [exc |-> "IndexError", val |-> 0]
      [] f.kind = "badTime" -> [exc |-> "ValueError", val |-> 0]

-----------------------------------------------------------------------------
(* Outcomes of processAdv: a plain return, or the exception it raises.     *)

Outcome(k, ts, dur) == [kind |-> k, timestamp |-> ts, duration |-> dur]

Continue == Outcome("Continue", 0, 0)
ModelInitialised == Outcome("ModelInitialised", 0, 0)
ConnectionAlert(ts, dur) == Outcome("ConnectionAlert", ts, dur)
InvalidTimestamp == Outcome("RuntimeWarning", 0, 0)
Raised(exc) == Outcome(exc, 0, 0)

-----------------------------------------------------------------------------
(* SimpleStatisticsModel, simple_statistics.py *)

SimpleInitElements == 10

\* The constructor with the initialisation counter one too low.
SimpleStatisticsModel_OneLess ==
    [variant |-> "simple_statistics",
     currThreshold |-> Dy(0),
     initElements |-> SimpleInitElements - 1,
     lastSeen |-> 0,
     silenceMidpoint |-> Dy(0),
     initState |-> <<>>]

SimpleStatisticsModel ==
    [variant |-> "simple_statistics",
     currThreshold |-> Dy(0),
     initElements |-> SimpleInitElements,
     lastSeen |-> 0,
     silenceMidpoint |-> Dy(0),
     initState |-> <<>>]

SimpleIsReady(m) == m.initElements <= 0

\* The steady-state test without abs(): only gaps longer than the midpoint alert.
SimpleUpdate_NoAbs(m, ts, dur) ==
    LET delta == DyAbsDiff(m.silenceMidpoint, dur)
        mid   == DyHalfSum(m.silenceMidpoint, dur)
        thr   == IF DyGreater(delta, m.currThreshold) THEN delta ELSE m.currThreshold
    IN
    IF m.initElements > 0
      THEN LET left == m.initElements - 1 IN
           IF left <= 0
             THEN [m |-> [m EXCEPT !.silenceMidpoint = mid, !.currThreshold = thr,
                                   !.initElements = left, !.initState = <<mid, thr>>],
                   out |-> ModelInitialised]
             ELSE [m |-> [m EXCEPT !.silenceMidpoint = mid, !.currThreshold = thr,
                                   !.initElements = left],
                   out |-> Continue]
      ELSE IF DyGreater(Dy(dur), m.silenceMidpoint) /\ DyGreater(delta, DyTwice(m.currThreshold))
             THEN [m |-> m, out |-> ConnectionAlert(ts, dur)]
             ELSE [m |-> [m EXCEPT !.silenceMidpoint = mid, !.currThreshold = thr],
                   out |-> Continue]

\* The steady-state branch learning the gap also when it raises the alert.
SimpleUpdate_AlertLearns(m, ts, dur) ==
    LET delta == DyAbsDiff(m.silenceMidpoint, dur)
        mid   == DyHalfSum(m.silenceMidpoint, dur)
        thr   == IF DyGreater(delta, m.currThreshold) THEN delta ELSE m.currThreshold
    IN
    IF m.initElements > 0
      THEN LET left == m.initElements - 1 IN
           IF left <= 0
             THEN [m |-> [m EXCEPT !.silenceMidpoint = mid, !.currThreshold = thr,
                                   !.initElements = left, !.initState = <<mid, thr>>],
                   out |-> ModelInitialised]
             ELSE [m |-> [m EXCEPT !.silenceMidpoint = mid, !.currThreshold = thr,
                                   !.initElements = left],
                   out |-> Continue]
      ELSE IF DyGreater(delta, DyTwice(m.currThreshold))
             THEN [m |-> [m EXCEPT !.silenceMidpoint = mid, !.currThreshold = thr],
                   out |-> ConnectionAlert(ts, dur)]
             ELSE [m |-> [m EXCEPT !.silenceMidpoint = mid, !.currThreshold = thr],
                   out |-> Continue]

\* The branch of lines 39-52 taken once the gap is known.
SimpleUpdate(m, ts, dur) ==
    LET delta == DyAbsDiff(m.silenceMidpoint, dur)
        mid   == DyHalfSum(m.silenceMidpoint, dur)
        thr   == IF DyGreater(delta, m.currThreshold) THEN delta ELSE m.currThreshold
    IN
    IF m.initElements > 0
      THEN LET left == m.initElements - 1 IN
           IF left <= 0
             THEN [m |-> [m EXCEPT !.silenceMidpoint = mid, !.currThreshold = thr,
                                   !.initElements = left, !.initState = <<mid, thr>>],
                   out |-> ModelInitialised]
             ELSE [m |-> [m EXCEPT !.silenceMidpoint = mid, !.currThreshold = thr,
                                   !.initElements = left],
                   out |-> Continue]
      ELSE IF DyGreater(delta, DyTwice(m.currThreshold))
             THEN [m |-> m, out |-> ConnectionAlert(ts, dur)]
             ELSE [m |-> [m EXCEPT !.silenceMidpoint = mid, !.currThreshold = thr],
                   out |-> Continue]

\* processAdv with the zero test of lines 25-26 left out.
SimpleProcessAdv_NoZeroTest(m, f) ==
    LET p == ParseTimestamp(f) IN
    IF p.exc # "none" THEN [m |-> m, out |-> Raised(p.exc)]
    ELSE IF m.lastSeen = 0 THEN [m |-> [m EXCEPT !.lastSeen = p.val], out |-> Continue]
    ELSE LET dur == p.val - m.lastSeen
             m1  == [m EXCEPT !.lastSeen = p.val]
         IN
         IF m.silenceMidpoint.n = 0
           THEN [m |-> [m1 EXCEPT !.silenceMidpoint = Dy(dur)], out |-> Continue]
           ELSE SimpleUpdate(m1, p.val, dur)

SimpleProcessAdv(m, f) ==
    LET p == ParseTimestamp(f) IN
    IF p.exc # "none" THEN [m |-> m, out |-> Raised(p.exc)]
    ELSE IF p.val = 0 THEN [m |-> m, out |-> InvalidTimestamp]
    ELSE IF m.lastSeen = 0 THEN [m |-> [m EXCEPT !.lastSeen = p.val], out |-> Continue]
    ELSE LET dur == p.val - m.lastSeen
             m1  == [m EXCEPT !.lastSeen = p.val]
         IN
         IF m.silenceMidpoint.n = 0
           THEN [m |-> [m1 EXCEPT !.silenceMidpoint = Dy(dur)], out |-> Continue]
           ELSE SimpleUpdate(m1, p.val, dur)

\* __str__: lastSeen, silenceMidpoint, currThreshold
SimpleStr(m) == <<m.lastSeen, m.silenceMidpoint, m.currThreshold>>

-----------------------------------------------------------------------------
(* SlidingWindowModel, sliding_window.py *)

BLE_LowDutyCycle_MinInterval == 20

windowSize == 11

\* The constructor with the window one element short.
SlidingWindowModel_OneLess ==
    [variant |-> "sliding_window",
     initCnt |-> windowSize - 1,
     window |-> <<>>,
     lastSeen |-> 0,
     initState |-> <<>>]

SlidingWindowModel ==
    [variant |-> "sliding_window",
     initCnt |-> windowSize,
     window |-> <<>>,
     lastSeen |-> 0,
     initState |-> <<>>]

SlidingIsReady(m) == m.initCnt <= 0

\* The alert test without the standard deviation: silenceDuration > 2 * windowMean.
SlidingExceeds_NoStdDev(w, dur) == Len(w) * dur > 2 * SumSeq(w)

\* silenceDuration > 2 * windowMean + windowStdDev, with windowMean = S/n
\* and windowStdDev = sqrt((n*Q - S*S) / (n*(n-1))) for the sum S and the sum
\* of squares Q of the n window elements: with d = n*dur - 2*S the test is
\* d > 0 and (n-1)*d*d > n*(n*Q - S*S).
SlidingExceeds(w, dur) ==
    LET n == Len(w)
        S == SumSeq(w)
        Q == SumSquares(w)
        d == n * dur - 2 * S
    IN  d > 0 /\ (n - 1) * d * d > n * (n * Q - S * S)

\* The steady-state update without self.window.pop(0).
SlidingUpdate_NoPop(m, ts, dur) ==
    IF ~SlidingIsReady(m)
      THEN LET w == Append(m.window, dur)
               left == m.initCnt - 1
           IN
           IF left <= 0
             THEN [m |-> [m EXCEPT !.window = w, !.initCnt = left,
                                   !.initState = <<w, Median(w)>>],
                   out |-> ModelInitialised]
             ELSE [m |-> [m EXCEPT !.window = w, !.initCnt = left], out |-> Continue]
      ELSE IF SlidingExceeds(m.window, dur)
             THEN [m |-> m, out |-> ConnectionAlert(ts, dur)]
             ELSE [m |-> [m EXCEPT !.window = Append(m.window, dur)],
                   out |-> Continue]

\* Lines 47-68, taken when the gap is at least the minimal interval.
SlidingUpdate(m, ts, dur) ==
    IF ~SlidingIsReady(m)
      THEN LET w == Append(m.window, dur)
               left == m.initCnt - 1
           IN
           IF left <= 0
             THEN [m |-> [m EXCEPT !.window = w, !.initCnt = left,
                                   !.initState = <<w, Median(w)>>],
                   out |-> ModelInitialised]
             ELSE [m |-> [m EXCEPT !.window = w, !.initCnt = left], out |-> Continue]
      ELSE IF SlidingExceeds(m.window, dur)
             THEN [m |-> m, out |-> ConnectionAlert(ts, dur)]
             ELSE [m |-> [m EXCEPT !.window = Append(Tail(m.window), dur)],
                   out |-> Continue]

\* processAdv without the minimal-interval test of lines 39-45.
SlidingProcessAdv_NoDiscard(m, f) ==
    LET p == ParseTimestamp(f) IN
    IF p.exc # "none" THEN [m |-> m, out |-> Raised(p.exc)]
    ELSE IF p.val = 0 THEN [m |-> m, out |-> InvalidTimestamp]
    ELSE IF m.lastSeen = 0 THEN [m |-> [m EXCEPT !.lastSeen = p.val], out |-> Continue]
    ELSE SlidingUpdate([m EXCEPT !.lastSeen = p.val], p.val, p.val - m.lastSeen)

SlidingProcessAdv(m, f) ==
    LET p == ParseTimestamp(f) IN
    IF p.exc # "none" THEN [m |-> m, out |-> Raised(p.exc)]
    ELSE IF p.val = 0 THEN [m |-> m, out |-> InvalidTimestamp]
    ELSE IF m.lastSeen = 0 THEN [m |-> [m EXCEPT !.lastSeen = p.val], out |-> Continue]
    ELSE LET dur == p.val - m.lastSeen
             m1  == [m EXCEPT !.lastSeen = p.val]
         IN
         IF dur < BLE_LowDutyCycle_MinInterval
           THEN [m |-> m1, out |-> Continue]
           ELSE SlidingUpdate(m1, p.val, dur)

\* __str__: lastSeen, window, mean, stdev; mean and stdev stay None when
\* statistics raises StatisticsError (mean of no element: both stay None;
\* stdev of one element: the mean is set already).  The mean is kept as <<S, n>> and the deviation as its square
\* <<n*Q - S*S, n*(n-1)>>; <<>> stands for None.
SlidingStr(m) ==
    LET n == Len(m.window)
        S == SumSeq(m.window)
        Q == SumSquares(m.window)
    IN  <<m.lastSeen, m.window,
          IF n >= 1 THEN <<S, n>> ELSE <<>>,
          IF n >= 2 THEN <<n * Q - S * S, n * (n - 1)>> ELSE <<>> >>

-----------------------------------------------------------------------------
(* Either variant behind the one interface of models/model.py *)

NewModel(id) == IF id = "simple_statistics" THEN SimpleStatisticsModel ELSE SlidingWindowModel

ProcessAdv(m, f) ==
    IF m.variant = "simple_statistics" THEN SimpleProcessAdv(m, f) ELSE SlidingProcessAdv(m, f)

IsReady(m) == IF m.variant = "simple_statistics" THEN SimpleIsReady(m) ELSE SlidingIsReady(m)

Str(m) == IF m.variant = "simple_statistics" THEN SimpleStr(m) ELSE SlidingStr(m)

-----------------------------------------------------------------------------
(* One anomaly model taken alone: a fresh model of either variant is fed   *)
(* the records of one device.  The device advertises with a period; a      *)
(* record follows the last processed one by that period or, MaxOdd times,  *)
(* by another gap (shorter, longer, zero or backwards), or its Timestamp   *)
(* field is zero or malformed.                                             *)

DetectorIDs == {"simple_statistics", "sliding_window"}

Periods == {100, 125}

\* Timestamp of the first record of a device.
Starts == {1000}

OddGaps == {-1000, 0, 19, 20, 250, 375}

\* The fields that carry the timestamp v: its decimal text and, where one
\* exists, an ISO-like text.
FieldsOf(v) == {IntField(v)} \cup (IF IsoAble(v) THEN {IsoField(v)} ELSE {})

\* The fields the next record of the device may carry, seen from a model
\* whose last processed record had timestamp last (0: none yet): those one
\* period later, and the odd ones.
RegularFields(last, P) ==
    IF last = 0 THEN UNION {FieldsOf(v) : v \in Starts} ELSE FieldsOf(last + P)

OddFields(last, P) ==
    (IF last = 0 THEN {} ELSE UNION {FieldsOf(last + g) : g \in OddGaps \ {P}})
      \cup FieldsOf(0) \cup {NoTField, BadTimeField}

ModelInit ==
    /\ CollectorIdle
    /\ ResyncIdle
    /\ DetectorIdle
    /\ \E id \in DetectorIDs : model = NewModel(id)
    /\ period \in Periods
    /\ fed = <<>>
    /\ outs = <<>>
    /\ prev = model
    /\ odd = 0

\* model.processAdv(timestamp) on the record f
Call(f) ==
    LET r == ProcessAdv(model, f) IN
    /\ model' = r.m
    /\ prev' = model
    /\ fed' = Append(fed, ParseTimestamp(f))
    /\ outs' = Append(outs, r.out)

FeedRegular ==
    /\ Len(fed) < MaxCalls
    /\ \E f \in RegularFields(model.lastSeen, period) : Call(f)
    /\ UNCHANGED <<period, odd, collectorVars, resyncVars, detectorVars>>

FeedOdd ==
    /\ Len(fed) < MaxCalls
    /\ odd < MaxOdd
    /\ \E f \in OddFields(model.lastSeen, period) : Call(f)
    /\ odd' = odd + 1
    /\ UNCHANGED <<period, collectorVars, resyncVars, detectorVars>>

NextModel == FeedRegular \/ FeedOdd

SpecModel == ModelInit /\ [][NextModel]_vars

-----------------------------------------------------------------------------
(* The detection engine, detector.py lines 41-76.  The capture holds rows  *)
(* of two devices in any interleaving; each device advertises with the     *)
(* period, and MaxOddRecords rows are odd: off the period, or with a zero  *)
(* or malformed Timestamp field.                                           *)

AddressList == <<"aa:aa", "bb:bb">>

Addresses == {AddressList[i] : i \in 1..Len(AddressList)}

\* The advertising intervals of the devices of a capture: those every
\* timestamp format can write.
RowPeriods == {P \in Periods : IsoAble(P)}

\* Odd gaps of a capture row: below the minimal interval, and long enough to alert.
OddRecordGaps == {19, 375}

\* The Timestamp field of a row with timestamp v in the capture's format.
FieldIn(fmt, v) == IF fmt = "iso" /\ IsoAble(v) THEN IsoField(v) ELSE IntField(v)

RegularRowFields(fmt, last, P) ==
    IF last = 0 THEN {FieldIn(fmt, v) : v \in Starts} ELSE {FieldIn(fmt, last + P)}

OddRowFields(fmt, last, P) ==
    (IF last = 0 THEN {} ELSE {FieldIn(fmt, last + g) : g \in OddRecordGaps})
      \cup {FieldIn(fmt, 0), NoTField, BadTimeField}

\* A dict entry added or replaced.
Put(d, k, v) == [x \in (DOMAIN d) \cup {k} |-> IF x = k THEN v ELSE d[x]]

\* The lookup with one model for the whole engine: whatever model exists is used.
Lookup_Shared(d, a, id) ==
    IF DOMAIN d # {} THEN d[CHOOSE x \in DOMAIN d : TRUE] ELSE NewModel(id)

\* Lines 56-60: model = models[address], created by modelFactory() on KeyError.
Lookup(d, a, id) == IF a \in DOMAIN d THEN d[a] ELSE NewModel(id)

\* The try statement with ModelInitialised handled like ConnectionAlert.
Dispatch_AlertOnInitialised(kind) ==
    CASE kind = "Continue"         -> "none"
      [] kind \in {"ModelInitialised", "ConnectionAlert"} -> "alert"
      [] kind \in {"RuntimeWarning", "RuntimeError"} -> "print"
      [] OTHER                     -> "uncaught"

\* Lines 62-74: what the try statement does with the outcome of processAdv:
\* ModelInitialised is passed over, ConnectionAlert writes an alert row,
\* RuntimeWarning and RuntimeError print the error line; a plain return does
\* nothing and any other exception leaves the loop.
Dispatch(kind) ==
    CASE kind = "Continue"         -> "none"
      [] kind = "ModelInitialised" -> "pass"
      [] kind = "ConnectionAlert"  -> "alert"
      [] kind \in {"RuntimeWarning", "RuntimeError"} -> "print"
      [] OTHER                     -> "uncaught"

Logged(log, row) == [len |-> log.len + 1, last |-> row]

DetectorInit ==
    /\ CollectorIdle
    /\ ResyncIdle
    /\ ModelIdle
    /\ detectorID \in DetectorIDs
    /\ format \in {"int", "iso"}
    /\ period \in RowPeriods
    /\ odd = 0
    /\ engine = "running"
    /\ models = <<>>
    /\ processed = 0
    /\ modelLog = [len |-> 0, last |-> <<>>]
    /\ alertLog = [len |-> 0, last |-> <<>>]
    /\ errorLog = [len |-> 0, last |-> <<>>]
    /\ recOf = [a \in Addresses |-> <<>>]
    /\ outOf = [a \in Addresses |-> Continue]
    /\ lastRow = <<>>

\* One pass of the loop "for advertisement in capture", lines 52-76, on the
\* row of address a with Timestamp field f.
ProcessRow(a, f) ==
    LET m == Lookup(models, a, detectorID)
        r == ProcessAdv(m, f)
        d == Dispatch(r.out.kind)
        after == Put(models, a, r.m)
    IN
    /\ models' = after
    /\ alertLog' = IF d = "alert"
                     THEN Logged(alertLog, <<a, r.out.timestamp, r.out.duration>>)
                     ELSE alertLog
    /\ errorLog' = IF d = "print" THEN Logged(errorLog, <<a, f>>) ELSE errorLog
    /\ modelLog' = Logged(modelLog, <<a, Str(after[a])>>)
    /\ engine' = IF d = "uncaught" THEN "aborted" ELSE "running"
    /\ processed' = processed + 1
    /\ recOf' = [recOf EXCEPT ![a] = Append(@, f)]
    /\ outOf' = [outOf EXCEPT ![a] = r.out]
    /\ lastRow' = <<a, f>>

LastSeenOf(a) == IF a \in DOMAIN models THEN models[a].lastSeen ELSE 0

ReadRegularRow ==
    /\ engine = "running"
    /\ processed < MaxRecords
    /\ \E a \in Addresses :
         \E f \in RegularRowFields(format, LastSeenOf(a), period) : ProcessRow(a, f)
    /\ UNCHANGED <<detectorID, format, period, odd>>
    /\ UNCHANGED <<modelVars, collectorVars, resyncVars>>

ReadOddRow ==
    /\ engine = "running"
    /\ processed < MaxRecords
    /\ odd < MaxOddRecords
    /\ \E a \in Addresses :
         \E f \in OddRowFields(format, LastSeenOf(a), period) : ProcessRow(a, f)
    /\ odd' = odd + 1
    /\ UNCHANGED <<detectorID, format, period>>
    /\ UNCHANGED <<modelVars, collectorVars, resyncVars>>

\* The capture is exhausted: the with block closes the three files.
EndOfCapture ==
    /\ engine = "running"
    /\ engine' = "finished"
    /\ UNCHANGED <<detectorID, format, models, processed, modelLog, alertLog, errorLog,
                   recOf, outOf, lastRow>>
    /\ UNCHANGED <<deviceVars, modelVars, collectorVars, resyncVars>>

NextDetector == ReadRegularRow \/ ReadOddRow \/ EndOfCapture

SpecDetector == DetectorInit /\ [][NextDetector]_vars

-----------------------------------------------------------------------------
(* Claims about the collector *)

\* A session that has not yet blocked in start_cond.wait().
BeforeWait(s) == pc[s] \in {"unstarted", "cond_enter", "cond_wait"}

\* A session whose start_cond.wait() has returned.
PastWait(s) == pc[s] \notin {"unstarted", "cond_enter", "cond_wait", "waiting", "woken"}

\* C1: start barrier, safety.  No capture session proceeds past its
\* start_cond.wait() before every spawned session has reached its own wait
\* point: whenever some session is past wait(), no session is still on its
\* way to wait().
C1_NoneReleasedBeforeAllWait ==
    \A s \in Sessions : PastWait(s) => \A t \in Sessions : ~BeforeWait(t)

\* C2: start barrier, liveness.  Once the main thread has started every
\* thread and issued its single notify_all, every session is eventually
\* released from start_cond.wait().
C2_AllEventuallyReleased ==
    (mainPc = "join") ~> (\A s \in Sessions : PastWait(s))

\* C3: output sink mutual exclusion.  A session inside a sink write (a
\* record, a status line or an error line) holds write_lock, so no two
\* sessions are inside a sink write at the same time.
C3_SinkWriteHoldsLock ==
    /\ \A s \in Sessions : writing[s] => writeLock = s
    /\ Cardinality({s \in Sessions : writing[s]}) <= 1

\* The marker mk occurs in seq at positions i .. i+3.
MarkerAt(seq, mk, i) ==
    /\ i + 3 <= Len(seq)
    /\ \A k \in 1..4 : seq[i + k - 1] = mk[k]

HasMarker(seq, mk) == \E i \in 1..Len(seq) : MarkerAt(seq, mk, i)

\* C4: resync scan.  The scan stops immediately after the first complete
\* occurrence of the marker in the bytes it consumes: when it has stopped,
\* the consumed bytes end with the marker and hold it nowhere earlier (no
\* stop on a partial match), and as soon as the consumed bytes hold a
\* complete marker the scan has stopped (no marker is passed over, whatever
\* precedes it).
C4_ScanStopsAfterFirstMarker ==
    LET mk == Marker(mode) IN
    /\ rsDepth = 4 => /\ MarkerAt(rsRead, mk, Len(rsRead) - 3)
                      /\ \A i \in 1..(Len(rsRead) - 4) : ~MarkerAt(rsRead, mk, i)
    /\ HasMarker(rsRead, mk) => rsDepth = 4

\* start_time and, in the capture modes, channel have both been assigned.
Established(s) == start_time[s] # 0 /\ (mode # "timing" => channel[s] # 0)

\* C14: fixed offsets.  Within one session, in every mode and whatever lines
\* the peripheral sends, once start_time (and, in the capture modes, the
\* channel) has been established no step of the session assigns either of
\* them another value.
C14_OffsetsFixedOnceEstablished ==
    [][\A s \in Sessions :
          Established(s) => /\ start_time'[s] = start_time[s]
                            /\ channel'[s] = channel[s]]_vars

\* C16: reset handshake failure.  A session that has reported an I/O error of
\* the wait for the 'entry' line ends there: its next position is the end of
\* the session, not the mode's initialization or capture phase.
C16_HandshakeErrorEndsSession ==
    [][\A s \in Sessions :
          (pc[s] = "esp_err" /\ pc'[s] # "esp_err") => pc'[s] = "done"]_vars

\* C17: link I/O error isolation.  In every mode and every phase after the
\* handshake an I/O error of the link is logged under write_lock before the
\* session ends: no session is ever ended by an I/O error it did not catch.
C17_IOErrorLoggedThenEnd ==
    \A s \in Sessions : pc[s] # "io_crashed"

\* Positions of a capture-mode session after its initialization loop.
PastCaptureInit ==
    {"a_started", "a_marker", "a_row", "a_valerr", "a_scan", "a_rrow", "a_oserr",
     "r_waitscan", "r_waitframe", "r_started", "r_marker", "r_write", "r_err", "r_scan",
     "r_rwrite"}

\* C19: capture-mode initialization.  A session in advertising or raw mode
\* that has left the initialization loop has received both the 'Capture
\* started at:' line (start_time assigned) and the 'Locked to channel:' line
\* (channel assigned), whatever order they came in.
C19_InitNeedsBothLines ==
    \A s \in Sessions :
        pc[s] \in PastCaptureInit => (start_time[s] # 0 /\ channel[s] # 0)

\* The record the matched-marker path builds in mode m from the frame with
\* device time f.
MatchedRecord(m, f, st, ch) ==
    CASE m = "advertising" -> AdvMatchedRow(f, st)
      [] m = "raw"         -> RawPacket(f, st, ch)
      [] m = "timing"      -> TimingRow(f, st)

\* C20: resync decode equivalence.  The record built after the resync scan
\* is, field by field and in the representation of its Timestamp, the record
\* the matched-marker path builds for the same frame, start_time and channel.
C20_ResyncRecordAsMatched ==
    \A s \in Sessions :
        (rec[s] # <<>> /\ rec[s].path = "resync") =>
            rec[s].row = MatchedRecord(mode, rec[s].frame, start_time[s], channel[s])

\* Positions a raw-mode session is at just after it has read one whole
\* 'BLE:' frame from the link, the channel being locked (lines 235-238, 251
\* and 276-283).
RawFrameRead == {"r_waitframe", "r_write", "r_rwrite"}

\* C22: raw-mode frame emission.  Once the channel is locked, every step in
\* which a raw-mode session reads a 'BLE:' frame leaves that frame as the
\* record about to be written to the sink, with time start_time + device
\* time and the locked channel, whatever the payload: no frame is consumed
\* without being emitted.
C22_EveryFrameEmitted ==
    [][\A s \in Sessions :
         (mode = "raw" /\ pc'[s] # pc[s] /\ pc'[s] \in RawFrameRead) =>
             /\ pc'[s] \in SinkSites
             /\ rec'[s] # <<>>
             /\ rec'[s].row = RawPacket(rec'[s].frame, start_time[s], channel[s])]_vars

-----------------------------------------------------------------------------
(* Claims about one anomaly model *)

Calls == Len(fed)

\* The first n calls carried valid positive timestamps spaced exactly one
\* period P > 0 apart.
Periodic(n) ==
    /\ n <= Calls
    /\ \A i \in 1..n : fed[i].exc = "none" /\ fed[i].val > 0
    /\ \A i \in 2..n : /\ fed[i].val - fed[i-1].val = fed[2].val - fed[1].val
                       /\ fed[i].val - fed[i-1].val > 0

NumInitialised == Cardinality({i \in 1..Calls : outs[i].kind = "ModelInitialised"})

IsSimple == model.variant = "simple_statistics"

IsSliding == model.variant = "sliding_window"

\* C8 as stated: Simple-Statistics, fed n >= 11 timestamps spaced exactly
\* P > 0 apart, returns Initialized on exactly one of the n calls.
C8_InitialisedOnceFrom11 ==
    (IsSimple /\ Calls >= 11 /\ Periodic(Calls)) => NumInitialised = 1

\* C8 amended: Simple-Statistics, fed n >= 12 positive timestamps spaced
\* exactly P > 0 apart, returns Initialized on exactly one of the n calls,
\* the 12th; fed fewer than 12, it returns Initialized on none.
C8_InitialisedOnceFrom12 ==
    (IsSimple /\ Periodic(Calls)) =>
        /\ Calls >= 12 => NumInitialised = 1 /\ outs[12] = ModelInitialised
        /\ Calls < 12 => NumInitialised = 0

C8_Witness ==
    IsSimple /\ Calls > 12 /\ Periodic(Calls) /\ NumInitialised = 1

\* C9: Simple-Statistics end to end.  After eleven consecutive equal gaps of
\* P (twelve records) the model has returned Initialized, its threshold is 0
\* and its midpoint P; the next record, with a valid timestamp and a gap G
\* other than P, returns Alert with duration G and that record's timestamp.
C9_AlertAfterElevenEqualGaps ==
    (IsSimple /\ Periodic(12)) =>
        LET P == fed[2].val - fed[1].val IN
        /\ outs[12] = ModelInitialised
        /\ Calls = 12 => /\ model.currThreshold = Dy(0)
                         /\ model.silenceMidpoint = Dy(P)
                         /\ SimpleIsReady(model)
        /\ (Calls >= 13 /\ fed[13].exc = "none" /\ fed[13].val # 0
              /\ fed[13].val - fed[12].val # P) =>
               outs[13] = ConnectionAlert(fed[13].val, fed[13].val - fed[12].val)

C9_Witness ==
    /\ IsSimple /\ Periodic(12) /\ Calls = 13
    /\ fed[13].val - fed[12].val = 375
    /\ outs[13].kind = "ConnectionAlert" /\ outs[13].duration = 375

\* C10: Sliding-Window discard.  In every model state, a call whose gap
\* (timestamp minus lastSeen) is below 20, zero and negative gaps included,
\* leaves the window and the initialisation counter unchanged and returns
\* neither Initialized nor Alert; it returns Continue (unless the timestamp
\* itself is zero, which fails with InvalidTimestamp before any gap is taken).
C10_ShortGapDiscarded ==
    (IsSliding /\ Calls > 0 /\ fed[Calls].exc = "none"
        /\ fed[Calls].val - prev.lastSeen < BLE_LowDutyCycle_MinInterval) =>
        /\ model.window = prev.window
        /\ model.initCnt = prev.initCnt
        /\ outs[Calls].kind \notin {"ModelInitialised", "ConnectionAlert"}
        /\ fed[Calls].val # 0 => outs[Calls] = Continue

C10_Witness ==
    /\ IsSliding /\ Calls > 0 /\ fed[Calls].exc = "none" /\ fed[Calls].val # 0
    /\ SlidingIsReady(prev)
    /\ fed[Calls].val - prev.lastSeen < 0
    /\ outs[Calls] = Continue

\* Call i carried a timestamp the model accepts: it converts and is not zero.
Valid(i) == fed[i].exc = "none" /\ fed[i].val # 0

\* The last accepted call before call i (0: there is none).
RECURSIVE PrevValid(_)
PrevValid(i) == IF i <= 1 THEN 0 ELSE IF Valid(i - 1) THEN i - 1 ELSE PrevValid(i - 1)

HasPrev(i) == PrevValid(i) # 0

\* The gap call i supplies: its timestamp minus that of the last accepted call.
GapAt(i) == fed[i].val - fed[PrevValid(i)].val

\* Call i supplies a qualifying gap: it is accepted, it is not the seeding
\* call, and its gap is at least 20.
Qualifying(i) == Valid(i) /\ HasPrev(i) /\ GapAt(i) >= 20

\* The number of qualifying gaps among calls i..n, counted in one pass:
\* last is the timestamp of the last accepted call before i (0: none yet).
RECURSIVE QualifyingFrom(_, _, _, _)
QualifyingFrom(i, n, last, cnt) ==
    IF i > n THEN cnt
    ELSE IF ~Valid(i) THEN QualifyingFrom(i + 1, n, last, cnt)
    ELSE QualifyingFrom(i + 1, n, fed[i].val,
                        IF last # 0 /\ fed[i].val - last >= 20 THEN cnt + 1 ELSE cnt)

NumQualifying(n) == QualifyingFrom(1, n, 0, 0)

\* C11: Sliding-Window initialization.  For every timestamp sequence, a call
\* returns Initialized exactly when it supplies the 11th qualifying gap (no
\* earlier call, no later call), and isReady() is true exactly from that call
\* onwards.  Stated of the last call made; it holds after every call of every
\* sequence.
C11_InitialisedOn11thQualifyingGap ==
    (IsSliding /\ Calls > 0) =>
        LET q == NumQualifying(Calls) IN
        /\ (outs[Calls].kind = "ModelInitialised") <=> (Qualifying(Calls) /\ q = 11)
        /\ SlidingIsReady(model) <=> q >= 11
        /\ SlidingIsReady(prev) <=> NumQualifying(Calls - 1) >= 11

\* The call that supplies the 11th qualifying gap, after a gap that was
\* discarded, returns Initialized.
C11_Witness ==
    /\ IsSliding /\ Calls >= 2
    /\ outs[Calls].kind = "ModelInitialised"
    /\ Qualifying(Calls) /\ NumQualifying(Calls) = 11
    /\ \E i \in 2..(Calls - 1) : Valid(i) /\ ~Qualifying(i)
    /\ ~SlidingIsReady(prev) /\ SlidingIsReady(model)

\* C12: Sliding-Window bounded window.  In every reachable state
\* len(window) + initCnt = 11 and initCnt >= 0, so the window never holds more
\* than 11 elements and holds exactly 11 when the model is ready; a call on a
\* ready model that changes the window drops its oldest element and appends
\* the gap.
C12_WindowBounded ==
    IsSliding =>
        /\ Len(model.window) + model.initCnt = 11
        /\ model.initCnt >= 0
        /\ Len(model.window) <= 11
        /\ SlidingIsReady(model) => Len(model.window) = 11
        /\ (Calls > 0 /\ SlidingIsReady(prev) /\ model.window # prev.window) =>
             /\ Qualifying(Calls)
             /\ model.window = Append(Tail(prev.window), GapAt(Calls))

\* A ready model slid its window over a gap other than the ones it held.
C12_Witness ==
    /\ IsSliding /\ Calls > 0
    /\ SlidingIsReady(prev)
    /\ Len(model.window) = 11
    /\ model.window[11] # model.window[10]
    /\ model.window = Append(Tail(prev.window), GapAt(Calls))

\* Sum over the window of (n*x - S)^2: n^2 times the sum of squared
\* deviations from the mean.
RECURSIVE ScaledSquaredDeviations(_, _, _)
ScaledSquaredDeviations(w, n, S) ==
    IF w = <<>> THEN 0
    ELSE (n * Head(w) - S) * (n * Head(w) - S) + ScaledSquaredDeviations(Tail(w), n, S)

\* gap > 2 * mean(w) + sample_stddev(w) for a window w of 11 elements, from
\* the definitions mean = S/11 and stddev^2 = (sum of squared deviations)/10:
\* 11*gap - 2*S > 0 and 10 * (11*gap - 2*S)^2 > sum of (11*x - S)^2.
AboveTwoMeansPlusDeviation(w, gap) ==
    LET S == SumSeq(w)
        d == 11 * gap - 2 * S
    IN  d > 0 /\ 10 * d * d > ScaledSquaredDeviations(w, 11, S)

\* C13: Sliding-Window steady state.  A call on a ready model with gap >= 20
\* returns Alert(timestamp, gap) if and only if gap > 2*mean + sample stddev
\* of the 11 elements held before the call; otherwise it returns Continue and
\* the new window is the old one without its oldest element, followed by gap.
C13_AlertIffAboveWindow ==
    (IsSliding /\ Calls > 0 /\ SlidingIsReady(prev) /\ Qualifying(Calls)) =>
        LET gap == GapAt(Calls) IN
        IF AboveTwoMeansPlusDeviation(prev.window, gap)
          THEN outs[Calls] = ConnectionAlert(fed[Calls].val, gap)
          ELSE /\ outs[Calls] = Continue
               /\ model.window = Append(Tail(prev.window), gap)

\* An alert over a window whose elements are not all equal.
C13_Witness ==
    /\ IsSliding /\ Calls > 0 /\ SlidingIsReady(prev) /\ Qualifying(Calls)
    /\ \E i \in 1..11 : prev.window[i] # prev.window[1]
    /\ outs[Calls].kind = "ConnectionAlert"
    /\ outs[Calls].duration = GapAt(Calls)

\* C15: lastSeen.  For both variants the first accepted call seeds lastSeen;
\* after every later accepted call lastSeen equals that call's timestamp and
\* is not smaller than its value before the call.
C15_LastSeenMonotone ==
    (Calls > 0 /\ Valid(Calls)) =>
        /\ model.lastSeen = fed[Calls].val
        /\ model.lastSeen >= prev.lastSeen

\* C18: InvalidTimestamp.  For both variants and in every model state, a call
\* whose timestamp parses to zero fails with InvalidTimestamp and leaves every
\* field of the model unchanged.
C18_ZeroTimestampRejected ==
    (Calls > 0 /\ fed[Calls].exc = "none" /\ fed[Calls].val = 0) =>
        /\ outs[Calls] = InvalidTimestamp
        /\ model = prev

\* A zero timestamp was given to a ready model.
C18_Witness ==
    /\ Calls > 0 /\ fed[Calls].exc = "none" /\ fed[Calls].val = 0
    /\ IsReady(prev)
    /\ outs[Calls] = InvalidTimestamp
    /\ model = prev


\* The number of accepted calls among the first n.
NumValid(n) == Cardinality({i \in 1..n : Valid(i)})

\* The last call took the seeding step of lines 35-37: it was accepted, it
\* was not the first accepted call, and it found silenceMidpoint = 0.
SeedStepTaken == Valid(Calls) /\ HasPrev(Calls) /\ prev.silenceMidpoint = Dy(0)

\* C21: Simple-Statistics midpoint seeding.  For every timestamp sequence,
\* repeated and decreasing timestamps included, the seeding step (midpoint :=
\* gap, Continue, threshold and initElements untouched) is taken on the
\* second accepted call and on no later one.  Stated of the last call made.
C21_SeedOnSecondCallOnly ==
    (IsSimple /\ Calls > 0 /\ Valid(Calls)) =>
        /\ SeedStepTaken <=> NumValid(Calls) = 2
        /\ SeedStepTaken => /\ model.silenceMidpoint = Dy(GapAt(Calls))
                            /\ model.currThreshold = prev.currThreshold
                            /\ model.initElements = prev.initElements
                            /\ outs[Calls] = Continue

\* C23: alert frame effect.  For both variants a call that returns Alert
\* changes only lastSeen, which becomes the alerting record's timestamp:
\* midpoint, threshold and initElements, or window and initCnt, are as before
\* the call.
C23_AlertChangesOnlyLastSeen ==
    (Calls > 0 /\ outs[Calls].kind = "ConnectionAlert") =>
        /\ model = [prev EXCEPT !.lastSeen = fed[Calls].val]
        /\ outs[Calls].timestamp = fed[Calls].val
        /\ outs[Calls].duration = fed[Calls].val - prev.lastSeen

\* A Simple-Statistics model with a learned, non-zero threshold raised an alert.
C23_Witness ==
    /\ IsSimple /\ Calls > 0
    /\ outs[Calls].kind = "ConnectionAlert"
    /\ prev.currThreshold # Dy(0)
    /\ model.lastSeen # prev.lastSeen
    /\ model.silenceMidpoint = prev.silenceMidpoint

-----------------------------------------------------------------------------
(* Claims about the detection engine *)

\* The rows fs of one address processed alone, in order, from model m: the
\* final model, the last outcome and the number of Alert outcomes.
RECURSIVE RunFrom(_, _, _, _)
RunFrom(m, fs, out, alerts) ==
    IF fs = <<>>
      THEN [m |-> m, out |-> out, alerts |-> alerts]
      ELSE LET r == ProcessAdv(m, Head(fs)) IN
           RunFrom(r.m, Tail(fs), r.out,
                   IF r.out.kind = "ConnectionAlert" THEN alerts + 1 ELSE alerts)

RunAlone(a) == RunFrom(NewModel(detectorID), recOf[a], Continue, 0)

LastAddress == lastRow[1]

\* C5: per-address independence.  In every interleaving of the rows of two
\* addresses, after every row the model of each address and the outcome of
\* its last row are those of processing that address's rows alone, in the
\* same order, with a fresh model; an address has a model exactly when one
\* of its rows was read.
C5_PerAddressIndependence ==
    \A a \in Addresses :
        LET alone == RunAlone(a) IN
        /\ a \in DOMAIN models <=> recOf[a] # <<>>
        /\ recOf[a] # <<>> => /\ models[a] = alone.m
                              /\ outOf[a] = alone.out

\* A row of the first address was read before the row that initialised the
\* model of the second.
C5_Witness ==
    /\ Len(recOf[AddressList[1]]) >= 1
    /\ outOf[AddressList[2]].kind = "ModelInitialised"
    /\ LastAddress = AddressList[2]

IsFailure(o) == o.kind \notin {"Continue", "ModelInitialised", "ConnectionAlert"}

\* C6: the engine never aborts.  Whatever the Timestamp field of a row is, a
\* failure of processAdv is logged with the row's address and timestamp and
\* the engine goes on with the next row.
C6_EngineNeverAborts ==
    /\ engine # "aborted"
    /\ (processed > 0 /\ IsFailure(outOf[LastAddress])) => errorLog.last = lastRow

\* C7: output per record.  Every row read appends exactly one trace row, the
\* address with the snapshot of its model after the call, whatever the
\* outcome; an alert row {Address, alert timestamp, Duration = gap} is
\* appended exactly when the outcome is Alert.  So there are as many trace
\* rows as rows read and as many alert rows as Alert outcomes.
C7_RowsPerRecord ==
    LET alone == [a \in Addresses |-> RunAlone(a)] IN
    /\ modelLog.len = processed
    /\ alertLog.len = SumSeq([i \in 1..Len(AddressList) |-> alone[AddressList[i]].alerts])
    /\ processed > 0 =>
         LET o == outOf[LastAddress] IN
         /\ modelLog.last = <<LastAddress, Str(alone[LastAddress].m)>>
         /\ o.kind = "ConnectionAlert" =>
              /\ alertLog.last = <<LastAddress, o.timestamp, o.duration>>
              /\ o.timestamp = ParseTimestamp(lastRow[2]).val

C7_Witness ==
    /\ alertLog.len = 1
    /\ processed > 0
    /\ outOf[LastAddress].kind = "ConnectionAlert"
    /\ modelLog.len = processed

=============================================================================
